---- MODULE Spec2Model ----
(***************************************************************************)
(* jsdom-extended: the patches of src/mocks (geometry, requestAnimation-   *)
(* Frame shim, ResizeObserver mock, location helpers) and their composer   *)
(* applyJsdomExtended, as a state machine over the patched windows, the    *)
(* module-level rafHandles map and the host's timer queue.                 *)
(***************************************************************************)
EXTENDS Integers, Sequences, FiniteSets, TLC

\* ------------------------------------------------------------- bounds
\* Windows of the process (JSDOM instances handed to the patch functions).
Windows == {"w1", "w2"}
\* patchRAF applications in one process.
MaxInstalls == 2
\* requestAnimationFrame calls in one process.
MaxSched == 3
\* Granularity of the host clock: one Tick lets this much time pass.
TickStep == 8
\* Calls of the exported patch functions made by the test code.
MaxPatchCalls == 2
\* Calls made on FakeResizeObserver (constructions included).
MaxRoOps == 5

\* ---------------------------------------------------- program constants
\* raf.ts:17  }, 16);
FrameDelay == 16

VARIABLES
    \* --- animation-frame shim (src/mocks/raf.ts) ---
    rafHandles,   \* the module-level Map<number, Timeout>: handle -> timer id
    rafId,        \* per patchRAF closure: its `let rafId` counter (a sequence, one per installation)
    rafOf,        \* per window: the installation whose closures win.requestAnimationFrame /
                  \* win.cancelAnimationFrame currently are (0: not patched)
    timers,       \* the host's armed timers, in firing order: <<[tid, remaining]>>
    running,      \* the timer whose callback is on the stack (0: none)
    \* --- history of the shim (what a test observes) ---
    issued,       \* every requestAnimationFrame call, in order: <<[inst, id]>>; its index is the timer id
    invoked,      \* the timers whose frame callback was invoked, in order
    cancelHist,   \* per timer, whether its handle number was passed to a cancel function
                  \* before it fired: "none", "foreign" (only through other installations)
                  \* or "own" (through the installation that issued it)
    lastOp,       \* whether a cancelAnimationFrame call produced this state, and whether
                  \* the handle it was given had a live entry when it was called
    \* --- geometry patch (patchGeometry) ---
    gbcr,         \* per window: the own property getBoundingClientRect of HTMLElement.prototype
    innerWidth,   \* per window: the own property innerWidth of the window
    innerHeight,  \* per window: the own property innerHeight of the window
    fnCount,      \* function objects created so far by patchGeometry (each call makes a new one)
    \* --- resize-observer mock ---
    roCtor,       \* per window: whether win.ResizeObserver is FakeResizeObserver
    observers,    \* the constructed FakeResizeObserver instances: <<[cb]>>
    roCalls,      \* the invocations of the bound callbacks, in order
    roTrace,      \* the calls made on the instances, in order
    \* --- location helpers ---
    href,         \* per window: win.location.href
    warnings,     \* what console.warn received, in order
    \* --- what the test code saw last ---
    lastCall,     \* the last getBoundingClientRect, patchLocation, hasValidLocation or
                  \* navigateTo call, with its arguments and what it returned or did
    \* --- the patch functions' calls ---
    patchLog,     \* every patch function entered, in order: <<[fn, win, threw]>>
    nPatchCalls,  \* calls of exported patch functions made by the test code
    \* --- the composer (src/setup.ts) ---
    setupDef,     \* which of the file's two declarations of applyJsdomExtended the name
                  \* is bound to in this build (0: not yet observed)
    applyLog      \* every applyJsdomExtended call, in order: <<[win, first, last, threw]>>,
                  \* first..last being the entries of patchLog it produced

rafVars == <<rafHandles, rafId, rafOf, timers, running, issued, invoked, cancelHist, lastOp>>

geomVars == <<gbcr, innerWidth, innerHeight, fnCount>>

roVars == <<roCtor, observers, roCalls, roTrace>>

locVars == <<href, warnings>>

logVars == <<patchLog, nPatchCalls, setupDef, applyLog>>

vars == <<rafVars, geomVars, roVars, locVars, logVars, lastCall>>

\* ------------------------------------------------------------ helpers
Max(a, b) == IF a >= b THEN a ELSE b

NoOp == [op |-> "other", live |-> FALSE]

\* Map.prototype.set / delete / has on rafHandles.
MapSet(m, k, v) == [x \in DOMAIN m \cup {k} |-> IF x = k THEN v ELSE m[x]]

MapDelete(m, k) == [x \in DOMAIN m \ {k} |-> m[x]]

MapHas(m, k) == k \in DOMAIN m

\* setTimeout(fn, delay): the host keeps its timers by expiry, equal expiries in
\* arming order; `remaining` is the time left until the timer is due.
SetTimeout(q, tid, delay) ==
    LET k == Cardinality({i \in 1..Len(q) : q[i].remaining <= delay})
    IN SubSeq(q, 1, k) \o <<[tid |-> tid, remaining |-> delay]>> \o SubSeq(q, k + 1, Len(q))

\* clearTimeout(timeoutId): disarms the timer if it is still armed.
ClearTimeout(q, tid) == SelectSeq(q, LAMBDA t : t.tid # tid)

Armed(tid) == \E i \in 1..Len(timers) : timers[i].tid = tid

\* (mutant of TimerDelay) the delay shrinks with the handle: setTimeout(..., 16 / id).
TimerDelayShrinking(id) == FrameDelay \div id

\* The delay requestAnimationFrame arms its timer with (raf.ts:17).
TimerDelay(id) == FrameDelay

\* ------------------------------------------- the host's object model
\* An own data property: absent, or present with its value and attributes.
Absent == [present |-> FALSE, value |-> 0, writable |-> FALSE, configurable |-> FALSE]

\* The descriptor { value } that patchGeometry passes for getBoundingClientRect.
ValueOnly(v) ==
    [value |-> v, hasWritable |-> FALSE, writable |-> FALSE,
     hasConfigurable |-> FALSE, configurable |-> FALSE]

\* The descriptor { value, writable: true, configurable: true } of innerWidth / innerHeight.
WritableConfigurable(v) ==
    [value |-> v, hasWritable |-> TRUE, writable |-> TRUE,
     hasConfigurable |-> TRUE, configurable |-> TRUE]

\* Object.defineProperty(obj, name, desc) on a data property `cur` of an extensible
\* object (ECMAScript ValidateAndApplyPropertyDescriptor): a missing property is
\* created with absent attributes defaulting to false; a non-configurable one
\* rejects becoming configurable and, when it is also non-writable, becoming
\* writable or getting another value (function objects are equal only to
\* themselves). A rejection is a TypeError thrown to the caller.
DefineProperty(cur, desc) ==
    IF ~cur.present
    THEN [ok |-> TRUE,
          prop |-> [present |-> TRUE, value |-> desc.value,
                    writable |-> desc.hasWritable /\ desc.writable,
                    configurable |-> desc.hasConfigurable /\ desc.configurable]]
    ELSE IF /\ ~cur.configurable
            /\ \/ desc.hasConfigurable /\ desc.configurable
               \/ ~cur.writable /\ desc.hasWritable /\ desc.writable
               \/ ~cur.writable /\ desc.value # cur.value
    THEN [ok |-> FALSE, prop |-> cur]
    ELSE [ok |-> TRUE,
          prop |-> [present |-> TRUE, value |-> desc.value,
                    writable |-> IF desc.hasWritable THEN desc.writable ELSE cur.writable,
                    configurable |-> IF desc.hasConfigurable THEN desc.configurable
                                     ELSE cur.configurable]]

\* The kinds of element a document holds, each with its prototype chain.
ElementKinds == {"HTMLDivElement", "SVGSVGElement", "Element"}

ProtoChain(kind) ==
    CASE kind = "HTMLDivElement" -> <<"HTMLDivElement.prototype", "HTMLElement.prototype", "Element.prototype">>
      [] kind = "SVGSVGElement" -> <<"SVGSVGElement.prototype", "SVGElement.prototype", "Element.prototype">>
      [] OTHER -> <<"Element.prototype">>

InChain(kind, proto) == \E i \in 1..Len(ProtoChain(kind)) : ProtoChain(kind)[i] = proto

\* (mutant of FixedRect) bottom and right are swapped.
FixedRectSwapped ==
    [width |-> 100, height |-> 50, top |-> 0, left |-> 0, bottom |-> 100, right |-> 50,
     x |-> 0, y |-> 0]

\* The object the patched getBoundingClientRect returns.
FixedRect ==
    [width |-> 100, height |-> 50, top |-> 0, left |-> 0, bottom |-> 50, right |-> 100,
     x |-> 0, y |-> 0]

\* What the host's own Element.prototype.getBoundingClientRect returns: there is
\* no layout engine, every element measures zero.
NativeRect ==
    [width |-> 0, height |-> 0, top |-> 0, left |-> 0, bottom |-> 0, right |-> 0,
     x |-> 0, y |-> 0]

\* The URLs a window's location may hold.
Hrefs == {"about:blank", "about:blank#top", "http://localhost/"}

NoCall == [op |-> "none"]

\* Elements a test passes to observe.
Elements == {"e1", "e2"}

\* ---------------------------------------------------------------- Init
Init ==
    /\ rafHandles = <<>>
    /\ rafId = <<>>
    /\ rafOf = [w \in Windows |-> 0]
    /\ timers = <<>>
    /\ running = 0
    /\ issued = <<>>
    /\ invoked = <<>>
    /\ cancelHist = <<>>
    /\ lastOp = NoOp
    /\ gbcr = [w \in Windows |-> Absent]
    /\ innerWidth = [w \in Windows |->
          [present |-> TRUE, value |-> 1024, writable |-> TRUE, configurable |-> TRUE]]
    /\ innerHeight = [w \in Windows |->
          [present |-> TRUE, value |-> 768, writable |-> TRUE, configurable |-> TRUE]]
    /\ fnCount = 0
    /\ roCtor = [w \in Windows |-> FALSE]
    /\ observers = <<>>
    /\ roCalls = <<>>
    /\ roTrace = <<>>
    /\ href = [w \in Windows |-> "about:blank"]
    /\ warnings = <<>>
    /\ lastCall = NoCall
    /\ patchLog = <<>>
    /\ nPatchCalls = 0
    /\ setupDef = 0
    /\ applyLog = <<>>

\* ------------------------------------------------------------- actions
\* patchRAF(win): a fresh closure pair with its own counter `let rafId = 0`;
\* rafHandles is the module's, shared by every closure pair.
PatchRAFEff(w) ==
    /\ rafId' = Append(rafId, 0)
    /\ rafOf' = [rafOf EXCEPT ![w] = Len(rafId) + 1]
    /\ lastOp' = NoOp
    /\ UNCHANGED <<rafHandles, timers, running, issued, invoked, cancelHist>>

\* (mutant of RequestAnimationFrame) the handle is taken from the table's size,
\* id = rafHandles.size + 1, instead of the closure's counter.
RequestAnimationFrameBySize(w) ==
    /\ rafOf[w] # 0
    /\ Len(issued) < MaxSched
    /\ LET i == rafOf[w]
           id == Cardinality(DOMAIN rafHandles) + 1
           tid == Len(issued) + 1
       IN /\ rafId' = [rafId EXCEPT ![i] = id]
          /\ timers' = SetTimeout(timers, tid, TimerDelay(id))
          /\ rafHandles' = MapSet(rafHandles, id, tid)
          /\ issued' = Append(issued, [inst |-> i, id |-> id])
          /\ cancelHist' = Append(cancelHist, "none")
          /\ lastOp' = NoOp
    /\ UNCHANGED <<rafOf, running, invoked>>
    /\ UNCHANGED <<geomVars, roVars, locVars, logVars, lastCall>>

\* win.requestAnimationFrame(cb): id = ++rafId; timeoutId = setTimeout(..., 16);
\* rafHandles.set(id, timeoutId); return id.
RequestAnimationFrame(w) ==
    /\ rafOf[w] # 0
    /\ Len(issued) < MaxSched
    /\ LET i == rafOf[w]
           id == rafId[i] + 1
           tid == Len(issued) + 1
       IN /\ rafId' = [rafId EXCEPT ![i] = id]
          /\ timers' = SetTimeout(timers, tid, TimerDelay(id))
          /\ rafHandles' = MapSet(rafHandles, id, tid)
          /\ issued' = Append(issued, [inst |-> i, id |-> id])
          /\ cancelHist' = Append(cancelHist, "none")
          /\ lastOp' = NoOp
    /\ UNCHANGED <<rafOf, running, invoked>>
    /\ UNCHANGED <<geomVars, roVars, locVars, logVars, lastCall>>

\* The handles a caller may pass to cancelAnimationFrame: any integer.
CancelArgs == (-1)..MaxSched

\* The history after a cancel(h) call through installation i: every timer issued
\* under handle number h, by any installation, that has not fired yet is marked.
CancelHistAfter(i, h) ==
    [t \in 1..Len(issued) |->
        IF issued[t].id = h /\ (\A k \in 1..Len(invoked) : invoked[k] # t)
        THEN IF issued[t].inst = i \/ cancelHist[t] = "own" THEN "own" ELSE "foreign"
        ELSE cancelHist[t]]

\* (mutant of CancelEffect) the entry is deleted but clearTimeout is forgotten.
CancelEffectWithoutClear(h) ==
    [hit |-> MapHas(rafHandles, h),
     timers |-> timers,
     rafHandles |-> MapDelete(rafHandles, h)]

\* (mutant of CancelEffect) the handle is normalised first: rafHandles.get(Math.abs(id)).
CancelEffectAbs(h) ==
    LET k == IF h < 0 THEN -h ELSE h
        hit == MapHas(rafHandles, k)
    IN [hit |-> hit,
        timers |-> IF hit THEN ClearTimeout(timers, rafHandles[k]) ELSE timers,
        rafHandles |-> IF hit THEN MapDelete(rafHandles, k) ELSE rafHandles]

\* (mutant of CancelEffect) the timer is cleared but rafHandles.delete is forgotten.
CancelEffectKeepsEntry(h) ==
    LET hit == MapHas(rafHandles, h)
    IN [hit |-> hit,
        timers |-> IF hit THEN ClearTimeout(timers, rafHandles[h]) ELSE timers,
        rafHandles |-> rafHandles]

\* The body of cancelAnimationFrame(id): timeoutId = rafHandles.get(id);
\* if (timeoutId) { clearTimeout(timeoutId); rafHandles.delete(id); }
\* as the timer queue and the table it leaves (a Timeout object is always truthy).
CancelEffect(h) ==
    LET hit == MapHas(rafHandles, h)
    IN [hit |-> hit,
        timers |-> IF hit THEN ClearTimeout(timers, rafHandles[h]) ELSE timers,
        rafHandles |-> IF hit THEN MapDelete(rafHandles, h) ELSE rafHandles]

\* win.cancelAnimationFrame(id), called through window w.
CancelAnimationFrame(w, h) ==
    /\ rafOf[w] # 0
    /\ LET e == CancelEffect(h)
       IN /\ timers' = e.timers
          /\ rafHandles' = e.rafHandles
          /\ cancelHist' = CancelHistAfter(rafOf[w], h)
          /\ lastOp' = [op |-> "caf", live |-> MapHas(rafHandles, h)]
    /\ UNCHANGED <<rafId, rafOf, running, issued, invoked>>
    /\ UNCHANGED <<geomVars, roVars, locVars, logVars, lastCall>>

\* The host fires the first due timer once the stack is empty; the timer's function
\* does rafHandles.delete(id) and then calls cb(win.performance.now()).
TimerFire ==
    /\ running = 0
    /\ timers # <<>>
    /\ Head(timers).remaining = 0
    /\ LET tid == Head(timers).tid
       IN /\ timers' = Tail(timers)
          /\ rafHandles' = MapDelete(rafHandles, issued[tid].id)
          /\ invoked' = Append(invoked, tid)
          /\ running' = tid
          /\ lastOp' = NoOp
    /\ UNCHANGED <<rafId, rafOf, issued, cancelHist>>
    /\ UNCHANGED <<geomVars, roVars, locVars, logVars, lastCall>>

\* The frame callback returns (whatever it called meanwhile is a step of its own).
CallbackReturn ==
    /\ running # 0
    /\ running' = 0
    /\ lastOp' = NoOp
    /\ UNCHANGED <<rafHandles, rafId, rafOf, timers, issued, invoked, cancelHist>>
    /\ UNCHANGED <<geomVars, roVars, locVars, logVars, lastCall>>

\* Time passes on the host clock.
Tick ==
    /\ \E i \in 1..Len(timers) : timers[i].remaining > 0
    /\ timers' = [i \in 1..Len(timers) |->
                    [timers[i] EXCEPT !.remaining = Max(0, @ - TickStep)]]
    /\ lastOp' = NoOp
    /\ UNCHANGED <<rafHandles, rafId, rafOf, running, issued, invoked, cancelHist>>
    /\ UNCHANGED <<geomVars, roVars, locVars, logVars, lastCall>>

\* ------------------------------------------------- the patch functions
LogEntry(fn, w, threw) == [fn |-> fn, win |-> w, threw |-> threw]

\* patchGeometry(win), statement by statement: three Object.defineProperty calls,
\* the first with a function object made by this call; a TypeError thrown by one
\* skips the statements after it.
GeometryResult(w) ==
    LET d1 == DefineProperty(gbcr[w], ValueOnly(fnCount + 1))
        d2 == DefineProperty(innerWidth[w], WritableConfigurable(1280))
        d3 == DefineProperty(innerHeight[w], WritableConfigurable(720))
    IN [threw |-> ~(d1.ok /\ d2.ok /\ d3.ok),
        gbcr |-> d1.prop,
        innerWidth |-> IF d1.ok THEN d2.prop ELSE innerWidth[w],
        innerHeight |-> IF d1.ok /\ d2.ok THEN d3.prop ELSE innerHeight[w]]

PatchGeometryEff(w, g) ==
    /\ gbcr' = [gbcr EXCEPT ![w] = g.gbcr]
    /\ innerWidth' = [innerWidth EXCEPT ![w] = g.innerWidth]
    /\ innerHeight' = [innerHeight EXCEPT ![w] = g.innerHeight]
    /\ fnCount' = fnCount + 1

PatchGeometry(w) ==
    /\ nPatchCalls < MaxPatchCalls
    /\ LET g == GeometryResult(w)
       IN /\ PatchGeometryEff(w, g)
          /\ patchLog' = Append(patchLog, LogEntry("patchGeometry", w, g.threw))
    /\ nPatchCalls' = nPatchCalls + 1
    /\ UNCHANGED <<rafVars, roVars, locVars, lastCall, setupDef, applyLog>>

PatchRAF(w) ==
    /\ nPatchCalls < MaxPatchCalls
    /\ Len(rafId) < MaxInstalls
    /\ PatchRAFEff(w)
    /\ patchLog' = Append(patchLog, LogEntry("patchRAF", w, FALSE))
    /\ nPatchCalls' = nPatchCalls + 1
    /\ UNCHANGED <<geomVars, roVars, locVars, lastCall, setupDef, applyLog>>

\* patchResizeObserver(win): win.ResizeObserver = FakeResizeObserver.
PatchResizeObserverEff(w) ==
    /\ roCtor' = [roCtor EXCEPT ![w] = TRUE]
    /\ UNCHANGED <<observers, roCalls, roTrace>>

PatchResizeObserver(w) ==
    /\ nPatchCalls < MaxPatchCalls
    /\ PatchResizeObserverEff(w)
    /\ patchLog' = Append(patchLog, LogEntry("patchResizeObserver", w, FALSE))
    /\ nPatchCalls' = nPatchCalls + 1
    /\ UNCHANGED <<rafVars, geomVars, locVars, lastCall, setupDef, applyLog>>

WarningText ==
    "[jsdom-extended] window.location is about:blank. For full location support, create JSDOM with a URL: new JSDOM(html, { url: \"http://localhost/\" })"

\* (mutant of ShouldWarn) the test is a prefix test, href.startsWith('about:blank').
ShouldWarnPrefix(url) == url \in {"about:blank", "about:blank#top"}

\* patchLocation's condition: win.location.href === 'about:blank'.
ShouldWarn(url) == url = "about:blank"

\* patchLocation(win): warns when the condition holds; nothing else.
PatchLocationEff(w) ==
    /\ warnings' = IF ShouldWarn(href[w]) THEN Append(warnings, WarningText) ELSE warnings
    /\ href' = href
    /\ lastCall' = [op |-> "patchLocation", win |-> w, before |-> href[w], after |-> href'[w],
                   warned |-> Len(warnings') - Len(warnings)]

PatchLocation(w) ==
    /\ nPatchCalls < MaxPatchCalls
    /\ PatchLocationEff(w)
    /\ patchLog' = Append(patchLog, LogEntry("patchLocation", w, FALSE))
    /\ nPatchCalls' = nPatchCalls + 1
    /\ UNCHANGED <<rafVars, geomVars, roVars, setupDef, applyLog>>

\* src/setup.ts declares applyJsdomExtended twice: at lines 13-18 (definition 1)
\* and again at lines 31-35 (definition 2). Which declaration a caller reaches
\* is the build's choice; it is the same for every call of one process.
SetupDefs == {1, 2}

\* The patch functions the body of a definition calls, in statement order.
SetupBody(d) ==
    IF d = 1
    THEN << "patchGeometry", "patchRAF", "patchResizeObserver", "patchLocation" >>
    ELSE << "patchGeometry", "patchRAF", "patchResizeObserver" >>

CallsPatchLocation(d) == \E k \in 1..Len(SetupBody(d)) : SetupBody(d)[k] = "patchLocation"

\* applyJsdomExtended(window): the statements of the bound definition in order,
\* each a complete call; an error thrown by one propagates and skips the rest.
ApplyJsdomExtended(w) ==
    /\ nPatchCalls < MaxPatchCalls
    /\ \E d \in SetupDefs :
          /\ setupDef \in {0, d}
          /\ setupDef' = d
          /\ LET g == GeometryResult(w)
                 body == SetupBody(d)
                 done == IF g.threw THEN << "patchGeometry" >> ELSE body
                 entries == [k \in 1..Len(done) |->
                                LogEntry(done[k], w, g.threw /\ k = Len(done))]
             IN /\ PatchGeometryEff(w, g)
                /\ IF g.threw
                   THEN UNCHANGED <<rafVars, roVars, locVars, lastCall>>
                   ELSE /\ Len(rafId) < MaxInstalls
                        /\ PatchRAFEff(w)
                        /\ PatchResizeObserverEff(w)
                        /\ IF CallsPatchLocation(d)
                           THEN PatchLocationEff(w)
                           ELSE UNCHANGED <<locVars, lastCall>>
                /\ patchLog' = patchLog \o entries
                /\ applyLog' = Append(applyLog,
                      [win |-> w, first |-> Len(patchLog) + 1,
                       last |-> Len(patchLog) + Len(entries), threw |-> g.threw])
    /\ nPatchCalls' = nPatchCalls + 1

\* ------------------------------------------------ what the test code calls
\* element.getBoundingClientRect() on an element of window w: the method is the
\* first own property on the element's prototype chain; HTMLElement.prototype
\* holds the patched one once patchGeometry has defined it, Element.prototype
\* the host's.
GetBoundingClientRect(w, kind) ==
    /\ lastCall' =
          [op |-> "getBoundingClientRect", win |-> w, kind |-> kind,
           patched |-> gbcr[w].present,
           rect |-> IF InChain(kind, "HTMLElement.prototype") /\ gbcr[w].present
                    THEN FixedRect ELSE NativeRect]
    /\ UNCHANGED <<rafVars, geomVars, roVars, locVars, logVars>>

\* hasValidLocation(win): win.location.href !== 'about:blank'.
HasValidLocation(w) ==
    /\ UNCHANGED locVars
    /\ lastCall' = [op |-> "hasValidLocation", win |-> w, before |-> href[w], after |-> href'[w],
                   warned |-> Len(warnings') - Len(warnings), ret |-> href[w] # "about:blank"]
    /\ UNCHANGED <<rafVars, geomVars, roVars, logVars>>

\* navigateTo(win, url): win.location.href = url; the host navigates or declines.
NavigateTo(w, url) ==
    /\ \E done \in BOOLEAN : href' = [href EXCEPT ![w] = IF done THEN url ELSE @]
    /\ lastCall' = [op |-> "navigateTo", win |-> w, before |-> href[w], after |-> href'[w]]
    /\ UNCHANGED warnings
    /\ UNCHANGED <<rafVars, geomVars, roVars, logVars>>

\* --------------------------------------------------- FakeResizeObserver
ContentRect == [width |-> 100, height |-> 100]

\* new FakeResizeObserver(cb): this.cb = cb.
NewObserver ==
    /\ Len(roTrace) < MaxRoOps
    /\ observers' = Append(observers, [cb |-> Len(observers) + 1])
    /\ roTrace' = Append(roTrace, [op |-> "new", obs |-> Len(observers) + 1, el |-> "none"])
    /\ UNCHANGED <<roCtor, roCalls>>
    /\ UNCHANGED <<rafVars, geomVars, locVars, logVars, lastCall>>

\* (mutant of Observe) like a real ResizeObserver, an element this instance already
\* observes is not reported again.
ObserveOnce(o, el) ==
    /\ Len(roTrace) < MaxRoOps
    /\ roCalls' =
          IF \E k \in 1..Len(roTrace) :
                roTrace[k] = [op |-> "observe", obs |-> o, el |-> el]
          THEN roCalls
          ELSE Append(roCalls,
                 [cb |-> observers[o].cb,
                  entries |-> << [target |-> el, contentRect |-> ContentRect] >>,
                  observer |-> o])
    /\ roTrace' = Append(roTrace, [op |-> "observe", obs |-> o, el |-> el])
    /\ UNCHANGED <<roCtor, observers>>
    /\ UNCHANGED <<rafVars, geomVars, locVars, logVars, lastCall>>

\* observe(el): this.cb([{ target: el, contentRect: { width: 100, height: 100 } }], this).
Observe(o, el) ==
    /\ Len(roTrace) < MaxRoOps
    /\ roCalls' = Append(roCalls,
          [cb |-> observers[o].cb,
           entries |-> << [target |-> el, contentRect |-> ContentRect] >>,
           observer |-> o])
    /\ roTrace' = Append(roTrace, [op |-> "observe", obs |-> o, el |-> el])
    /\ UNCHANGED <<roCtor, observers>>
    /\ UNCHANGED <<rafVars, geomVars, locVars, logVars, lastCall>>

\* unobserve() {}
Unobserve(o, el) ==
    /\ Len(roTrace) < MaxRoOps
    /\ roTrace' = Append(roTrace, [op |-> "unobserve", obs |-> o, el |-> el])
    /\ UNCHANGED <<roCtor, observers, roCalls>>
    /\ UNCHANGED <<rafVars, geomVars, locVars, logVars, lastCall>>

\* disconnect() {}
Disconnect(o) ==
    /\ Len(roTrace) < MaxRoOps
    /\ roTrace' = Append(roTrace, [op |-> "disconnect", obs |-> o, el |-> "none"])
    /\ UNCHANGED <<roCtor, observers, roCalls>>
    /\ UNCHANGED <<rafVars, geomVars, locVars, logVars, lastCall>>

\* ------------------------------------------------------ specifications
NextRAF ==
    \/ \E w \in Windows : PatchRAF(w)
    \/ \E w \in Windows : RequestAnimationFrame(w)
    \/ \E w \in Windows, h \in CancelArgs : CancelAnimationFrame(w, h)
    \/ TimerFire
    \/ CallbackReturn
    \/ Tick

\* The animation-frame shim: installations, calls, timers.
SpecRAF == Init /\ [][NextRAF]_vars

\* The shim on a host whose event loop keeps running: time keeps passing while a
\* timer waits, a due timer is fired once the stack is empty, and a frame
\* callback returns.
SpecRAFFair ==
    /\ SpecRAF
    /\ WF_vars(Tick)
    /\ WF_vars(TimerFire)
    /\ WF_vars(CallbackReturn)

NextPatch ==
    \/ \E w \in Windows : PatchGeometry(w)
    \/ \E w \in Windows : PatchRAF(w)
    \/ \E w \in Windows : PatchResizeObserver(w)
    \/ \E w \in Windows : PatchLocation(w)
    \/ \E w \in Windows : ApplyJsdomExtended(w)
    \/ \E w \in Windows, kind \in ElementKinds : GetBoundingClientRect(w, kind)
    \/ \E w \in Windows : HasValidLocation(w)
    \/ \E w \in Windows, url \in Hrefs : NavigateTo(w, url)

\* The patch functions, the composer and the queries on the patched windows.
SpecPatch == Init /\ [][NextPatch]_vars

NextRO ==
    \/ NewObserver
    \/ \E o \in 1..Len(observers), el \in Elements : Observe(o, el)
    \/ \E o \in 1..Len(observers), el \in Elements : Unobserve(o, el)
    \/ \E o \in 1..Len(observers) : Disconnect(o)

\* The resize-observer mock.
SpecRO == Init /\ [][NextRO]_vars

Next == NextRAF \/ NextPatch \/ NextRO

\* The whole package.
Spec == Init /\ [][Next]_vars

\* ======================================================== the shim's claims
Invoked(t) == \E k \in 1..Len(invoked) : invoked[k] = t

\* Timers cancelled, while pending, through the installation that issued them.
cancelled == {t \in 1..Len(issued) : cancelHist[t] = "own"}

\* Timers whose handle number was passed, while they were pending, to the cancel
\* function of any installation.
cancelledByAny == {t \in 1..Len(issued) : cancelHist[t] # "none"}

\* C1: with patchRAF applied exactly once in the process, a handle passed to
\* cancelAnimationFrame before its timer fired never has its callback invoked.
C1_CancelPreventsCallback ==
    Len(rafId) = 1 => \A t \in cancelled : ~Invoked(t)

\* C1 witness: one installation, a handle cancelled while pending, and a handle
\* issued after it has already fired (so the cancelled one's time has passed).
C1_Witness ==
    /\ Len(rafId) = 1
    /\ \E t \in cancelled : \E u \in 1..Len(issued) : u > t /\ Invoked(u)

\* C2 (as claimed): installations are independent, i.e. whatever the other
\* installations do, a handle that has neither fired nor been cancelled through
\* its own installation keeps its timer armed and its own table entry, and a
\* handle cancelled through its own installation while pending never fires.
C2_InstallationsIndependent ==
    \A t \in 1..Len(issued) :
        /\ (~Invoked(t) /\ t \notin cancelled) =>
              /\ Armed(t)
              /\ MapHas(rafHandles, issued[t].id)
              /\ rafHandles[issued[t].id] = t
        /\ t \in cancelled => ~Invoked(t)

\* C4 (as claimed): a handle issued by an installation has an entry in the handle
\* table if and only if its callback has neither fired nor been cancelled. Read
\* in the code's favour: a cancel call with the handle's number through any
\* installation counts as cancelling it, the entry that implies "pending" is the
\* handle's own, and any entry under its number counts as the pending handle's.
C4_EntryIffPending ==
    \A t \in 1..Len(issued) :
        LET id == issued[t].id
            pending == ~Invoked(t) /\ t \notin cancelledByAny
        IN /\ (MapHas(rafHandles, id) /\ rafHandles[id] = t) => pending
           /\ pending => MapHas(rafHandles, id)

\* C5: within one installation every returned handle is greater than zero and
\* greater than every handle that installation returned before.
C5_HandlesPositiveIncreasing ==
    \A t \in 1..Len(issued) :
        /\ issued[t].id > 0
        /\ \A s \in 1..(t - 1) :
              issued[s].inst = issued[t].inst => issued[s].id < issued[t].id

\* C5 witness: an installation issued a handle, that handle fired or was
\* cancelled, and the installation then issued another one.
C5_Witness ==
    \E s, t \in 1..Len(issued) :
        /\ s < t
        /\ issued[s].inst = issued[t].inst
        /\ Invoked(s)
        /\ \E u \in cancelled : u < t

\* C6: a cancelAnimationFrame call whose handle has no live entry (zero,
\* negative, never issued, fired or cancelled) changes neither the handle table
\* nor the armed timers: whatever was pending before the call is pending after it.
C6_CancelUnknownIsNoop ==
    [][(lastOp'.op = "caf" /\ ~lastOp'.live)
          => (rafHandles' = rafHandles /\ timers' = timers)]_vars

\* C6 witness: cancel was just called with a handle that had no live entry, after
\* a callback has fired and while another one is pending.
C6_Witness ==
    /\ lastOp.op = "caf"
    /\ ~lastOp.live
    /\ invoked # <<>>
    /\ timers # <<>>

\* C7: the callbacks of one installation are invoked in the order they were scheduled.
C7_FifoWithinInstallation ==
    \A p, q \in 1..Len(invoked) :
        (p < q /\ issued[invoked[p]].inst = issued[invoked[q]].inst)
            => invoked[p] < invoked[q]

\* C7 witness: two callbacks of one installation have been invoked, with a
\* cancelled one scheduled between them.
C7_Witness ==
    \E p, q \in 1..Len(invoked) :
        /\ p < q
        /\ issued[invoked[p]].inst = issued[invoked[q]].inst
        /\ \E c \in cancelled : invoked[p] < c /\ c < invoked[q]

\* C12 (as claimed): on a host that keeps firing due timers, within an
\* installation (1) every scheduled callback is eventually invoked unless it was
\* cancelled through that installation before its timer fired, (2) no callback
\* is invoked twice, (3) while a callback runs the table holds no entry under
\* its handle, so that cancelling its own handle from inside it does nothing,
\* and (4) a requestAnimationFrame call made while a callback runs invokes
\* nothing itself: it returns a handle larger than the running one's (same
\* installation) whose timer is armed and not yet due.
C12_FairFiringInvokesOnce ==
    /\ \A t \in 1..MaxSched : (Len(issued) >= t) ~> (Invoked(t) \/ t \in cancelled)
    /\ [](\A p, q \in 1..Len(invoked) : p # q => invoked[p] # invoked[q])
    /\ [](running # 0 => ~MapHas(rafHandles, issued[running].id))
    /\ [][(running # 0 /\ Len(issued') > Len(issued)) =>
            LET new == Len(issued')
            IN /\ invoked' = invoked
               /\ running' = running
               /\ \E i \in 1..Len(timers') :
                     timers'[i].tid = new /\ timers'[i].remaining > 0
               /\ issued'[new].inst = issued[running].inst =>
                     issued'[new].id > issued[running].id]_vars

\* C13: with any number of installations, every timer stored in the handle
\* table is still armed (it has neither fired nor been cleared); so the table is
\* empty once no timer is armed, and it never holds more entries than there are
\* armed timers.
C13_TableTimersArmed ==
    /\ \A h \in DOMAIN rafHandles : Armed(rafHandles[h])
    /\ timers = <<>> => DOMAIN rafHandles = {}
    /\ Cardinality(DOMAIN rafHandles) <= Len(timers)

\* C13 witness: two installations have issued handles, a callback has fired, and
\* the table still holds an entry while more timers are armed than it has entries.
C13_Witness ==
    /\ Len(rafId) = 2
    /\ \E s, t \in 1..Len(issued) : issued[s].inst # issued[t].inst
    /\ invoked # <<>>
    /\ DOMAIN rafHandles # {}
    /\ Cardinality(DOMAIN rafHandles) < Len(timers)

\* ================================================ the patches' claims
\* C3 (as claimed): applying patchGeometry (alone, or as the first step of
\* applyJsdomExtended) to a window it has already been applied to raises no error.
C3_ReapplyRaisesNothing ==
    \A j, k \in 1..Len(patchLog) :
        (/\ j < k
         /\ patchLog[j].fn = "patchGeometry" /\ ~patchLog[j].threw
         /\ patchLog[k].fn = "patchGeometry" /\ patchLog[k].win = patchLog[j].win)
            => ~patchLog[k].threw

\* The callback invocations a sequence of calls on FakeResizeObserver instances
\* must produce: one per observe call, in order, to the callback bound to that
\* instance, with one entry for the observed element.
RECURSIVE ExpectedRoCalls(_)
ExpectedRoCalls(trace) ==
    IF trace = <<>> THEN <<>>
    ELSE LET rest == ExpectedRoCalls(SubSeq(trace, 1, Len(trace) - 1))
             c == trace[Len(trace)]
         IN IF c.op = "observe"
            THEN Append(rest,
                   [cb |-> c.obs,
                    entries |-> << [target |-> c.el,
                                    contentRect |-> [width |-> 100, height |-> 100]] >>,
                    observer |-> c.obs])
            ELSE rest

\* C8: after any sequence of observe, unobserve and disconnect calls the bound
\* callbacks have been invoked exactly once per observe call, in call order (so
\* by the time each observe returned), each with the one-element sequence for
\* the observed element; unobserve and disconnect have invoked nothing and have
\* stopped nothing.
C8_ObserveInvokesOncePerCall ==
    roCalls = ExpectedRoCalls(roTrace)

\* C8 witness: an instance was observed, disconnected and unobserved, and a later
\* observe on it (of the same element) invoked the callback again.
C8_Witness ==
    \E i, j, k, l \in 1..Len(roTrace) :
        /\ i < j /\ j < k /\ k < l
        /\ roTrace[i].op = "observe"
        /\ roTrace[j].op = "disconnect" /\ roTrace[j].obs = roTrace[i].obs
        /\ roTrace[k].op = "unobserve" /\ roTrace[k].obs = roTrace[i].obs
        /\ roTrace[l] = roTrace[i]
        /\ Len(roCalls) = 2

\* C9: hasValidLocation returns false exactly for the href 'about:blank';
\* patchLocation emits exactly one warning for that href and none for any other;
\* neither changes the href.
C9_LocationValidation ==
    /\ lastCall.op = "hasValidLocation" =>
          /\ lastCall.ret = (lastCall.before # "about:blank")
          /\ lastCall.warned = 0
          /\ lastCall.after = lastCall.before
    /\ lastCall.op = "patchLocation" =>
          /\ lastCall.warned = (IF lastCall.before = "about:blank" THEN 1 ELSE 0)
          /\ lastCall.after = lastCall.before

\* C9 witness: patchLocation has warned once about a blank window and was then
\* called on a window whose href merely starts with about:blank, without warning.
C9_Witness ==
    /\ lastCall.op = "patchLocation"
    /\ lastCall.before = "about:blank#top"
    /\ lastCall.warned = 0
    /\ Len(warnings) = 1

\* C10 (as claimed): once patchGeometry is installed on a window, every element
\* of its document, of whatever kind, measures the fixed rectangle.
C10_EveryElementFixedRect ==
    (lastCall.op = "getBoundingClientRect" /\ lastCall.patched) =>
        lastCall.rect = [width |-> 100, height |-> 50, top |-> 0, left |-> 0,
                         bottom |-> 50, right |-> 100, x |-> 0, y |-> 0]

\* C10 (amended): once patchGeometry is installed on a window, every element
\* that inherits from that window's HTMLElement.prototype measures the fixed
\* rectangle.
C10_HTMLElementFixedRect ==
    (/\ lastCall.op = "getBoundingClientRect"
     /\ lastCall.patched
     /\ InChain(lastCall.kind, "HTMLElement.prototype")) =>
        lastCall.rect = [width |-> 100, height |-> 50, top |-> 0, left |-> 0,
                         bottom |-> 50, right |-> 100, x |-> 0, y |-> 0]

\* C10 witness: a div of a patched window was measured.
C10_Witness ==
    /\ lastCall.op = "getBoundingClientRect"
    /\ lastCall.patched
    /\ lastCall.kind = "HTMLDivElement"
    /\ lastCall.rect.width = 100 /\ lastCall.rect.height = 50

\* The patch functions logged by the i-th applyJsdomExtended call, in order.
AppliedBy(i) ==
    LET a == applyLog[i]
    IN [k \in 1..(a.last - a.first + 1) |-> patchLog[a.first + k - 1].fn]

\* C11 (as claimed): every applyJsdomExtended call applies to its target
\* patchGeometry, patchRAF, patchResizeObserver and patchLocation, in this order
\* and each once; when a patch throws, the call throws and applies nothing after it.
C11_ComposerAppliesFourInOrder ==
    \A i \in 1..Len(applyLog) :
        LET a == applyLog[i]
        IN /\ \A k \in a.first..a.last : patchLog[k].win = a.win
           /\ a.threw = patchLog[a.last].threw
           /\ \A k \in a.first..(a.last - 1) : ~patchLog[k].threw
           /\ ~a.threw =>
                 AppliedBy(i) = << "patchGeometry", "patchRAF", "patchResizeObserver",
                                   "patchLocation" >>

====
